---- MODULE Spec2Model ----
(***************************************************************************)
(* A model of three grammars of NeMo-text-processing:                      *)
(*   - the Japanese ITN fraction verbalizer (ja/verbalizers/fraction.py),  *)
(*   - the Japanese ITN classifier (jp/taggers/tokenize_and_classify.py),  *)
(*   - the German TN electronic verbalizer (de/verbalizers/electronic.py). *)
(*                                                                         *)
(* Strings are sequences of one-character strings.  A transducer is an     *)
(* operator from a set of configurations to a set of configurations; a     *)
(* configuration [pos, out, w] has read the first pos characters of the    *)
(* input, has written out, and has accumulated the weight w.  Weights are  *)
(* integers: the classifier's in hundredths, the electronic verbalizer's   *)
(* in ten-thousandths.                                                     *)
(***************************************************************************)
EXTENDS Integers, Sequences, FiniteSets, TLC

VARIABLES
    fr_fields,  \* the fields of the fraction token that was tagged
    fr_token,   \* its serialized form, the verbalizer's input
    fr_out,     \* the set of output strings of FractionFst on fr_token
    fr_pc,      \* "idle" -> "tagged" -> "done"
    far,        \* the .far files on disk: path -> set holding the stored grammar
    self_fst,   \* self.fst of the ClassifyFst constructed last (a set, empty before)
    ctor_args,  \* the arguments of that construction
    line,       \* the input line given to the classifier
    cl_paths,   \* the accepting paths [out, w] of ClassifyFst.fst on line
    cl_pc,      \* "idle" -> "read" -> "done"
    el_in,      \* the electronic token that was tagged, and the deterministic flag
    el_token,   \* its serialized form, the verbalizer's input
    el_rendered,\* the paths [out, w] of delete_tokens(graph + delete_preserve_order)
    el_out,     \* the paths [out, w] of ElectronicFst.fst on el_token
    el_pc       \* "idle" -> "tagged" -> "done"

vars == <<fr_fields, fr_token, fr_out, fr_pc, far, self_fst, ctor_args,
          line, cl_paths, cl_pc, el_in, el_token, el_rendered, el_out, el_pc>>

fr_vars == <<fr_fields, fr_token, fr_out, fr_pc>>
cache_vars == <<far, self_fst, ctor_args>>
cl_vars == <<line, cl_paths, cl_pc>>
el_vars == <<el_in, el_token, el_rendered, el_out, el_pc>>

(***************************************************************************)
(* Bounds.                                                                 *)
(***************************************************************************)
MaxFields == 4
MaxLine == 6
MaxUser == 2
MaxParts == 3

(***************************************************************************)
(* pynini / pynutil primitives.                                            *)
(***************************************************************************)
Start == {[pos |-> 0, out |-> <<>>, w |-> 0]}

HasAt(s, p, lit) ==
    /\ p + Len(lit) <= Len(s)
    /\ SubSeq(s, p + 1, p + Len(lit)) = lit

\* pynutil.delete(lit): reads lit, writes nothing
delete(s, lit, C) ==
    { [c EXCEPT !.pos = @ + Len(lit)] : c \in {d \in C : HasAt(s, d.pos, lit)} }

\* pynutil.insert(lit): reads nothing, writes lit
insert(lit, C) ==
    { [c EXCEPT !.out = @ \o lit] : c \in C }

\* pynini.accep(lit): reads lit and writes it
accep(s, lit, C) ==
    { [c EXCEPT !.pos = @ + Len(lit), !.out = @ \o lit] :
          c \in {d \in C : HasAt(s, d.pos, lit)} }

\* pynutil.add_weight(fst, weight), applied to the configurations fst produced
add_weight(weight, C) ==
    { [c EXCEPT !.w = @ + weight] : c \in C }

NEMO_NOT_QUOTE(ch) == ch # "\""

NEMO_WHITE_SPACE(ch) == ch = " "

\* pynini.closure(NEMO_NOT_QUOTE): copies any number of non-quote characters
closure_NOT_QUOTE(s, C) ==
    UNION { { [c EXCEPT !.pos = @ + k, !.out = @ \o SubSeq(s, c.pos + 1, c.pos + k)] :
                k \in { j \in 0..(Len(s) - c.pos) :
                          \A i \in 1..j : NEMO_NOT_QUOTE(s[c.pos + i]) } } : c \in C }

\* delete_space = pynutil.delete(pynini.closure(NEMO_WHITE_SPACE))
delete_space(s, C) ==
    UNION { { [c EXCEPT !.pos = @ + k] :
                k \in { j \in 0..(Len(s) - c.pos) :
                          \A i \in 1..j : NEMO_WHITE_SPACE(s[c.pos + i]) } } : c \in C }

\* the output strings of the configurations that have read the whole input
Outputs(s, C) == { c.out : c \in { d \in C : d.pos = Len(s) } }

\* GraphFst.delete_tokens(fst), the part before fst: strips  name {
delete_tokens_open(s, name, C) ==
    delete_space(s,
      delete(s, <<"{">>,
        delete_space(s,
          delete(s, name, C))))

\* GraphFst.delete_tokens(fst), the part after fst: strips  }
delete_tokens_close(s, C) ==
    delete(s, <<"}">>, delete_space(s, C))

(***************************************************************************)
(* ja/verbalizers/fraction.py                                              *)
(***************************************************************************)
sign_component(s, C) ==
    delete(s, <<"\"">>,
      closure_NOT_QUOTE(s,
        delete(s, <<"n", "e", "g", "a", "t", "i", "v", "e", ":", " ", "\"">>, C)))

integer_part_field(s, C) ==
    delete(s, <<"\"">>,
      closure_NOT_QUOTE(s,
        delete(s, <<"i", "n", "t", "e", "g", "e", "r", "_", "p", "a", "r", "t", ":", " ", "\"">>, C)))

integer_component(s, C) ==
    integer_part_field(s, C)
      \cup integer_part_field(s, delete(s, <<" ">>, sign_component(s, C)))

denominator_component(s, C) ==
    delete(s, <<"\"">>,
      closure_NOT_QUOTE(s,
        delete(s, <<"d", "e", "n", "o", "m", "i", "n", "a", "t", "o", "r", ":", " ", "\"">>, C)))

numerator_component(s, C) ==
    delete(s, <<"\"">>,
      closure_NOT_QUOTE(s,
        delete(s, <<"n", "u", "m", "e", "r", "a", "t", "o", "r", ":", " ", "\"">>, C)))

\* pynini.closure(integer_component + pynutil.delete(" ") + pynutil.insert(" "))
RECURSIVE closure_integer(_, _)
closure_integer(s, C) ==
    IF C = {} THEN {}
    ELSE C \cup closure_integer(s, insert(<<" ">>, delete(s, <<" ">>, integer_component(s, C))))

\* pynini.closure(sign_component + pynutil.delete(" "))
RECURSIVE closure_sign(_, _)
closure_sign(s, C) ==
    IF C = {} THEN {}
    ELSE C \cup closure_sign(s, delete(s, <<" ">>, sign_component(s, C)))

\* the graph with the "/" between numerator and denominator left out
FractionFst_graph_no_slash(s, C) ==
    denominator_component(s,
      delete(s, <<" ">>,
        numerator_component(s,
          closure_sign(s,
            closure_integer(s, C)))))

FractionFst_graph(s, C) ==
    denominator_component(s,
      insert(<<"/">>,
        delete(s, <<" ">>,
          numerator_component(s,
            closure_sign(s,
              closure_integer(s, C))))))

FractionFst_final_graph(s, C) ==
    delete_tokens_close(s,
      FractionFst_graph(s,
        delete_tokens_open(s, <<"f", "r", "a", "c", "t", "i", "o", "n">>, C)))

\* the transductions of FractionFst.fst on the string s
FractionFst(s) == Outputs(s, FractionFst_final_graph(s, Start))

(***************************************************************************)
(* The tagged fraction tokens handed to the verbalizer.                    *)
(***************************************************************************)
FieldNames == {"integer_part", "negative", "numerator", "denominator", "integer"}

FieldKey(name) ==
    CASE name = "integer_part" -> <<"i", "n", "t", "e", "g", "e", "r", "_", "p", "a", "r", "t">>
      [] name = "negative"     -> <<"n", "e", "g", "a", "t", "i", "v", "e">>
      [] name = "numerator"    -> <<"n", "u", "m", "e", "r", "a", "t", "o", "r">>
      [] name = "denominator"  -> <<"d", "e", "n", "o", "m", "i", "n", "a", "t", "o", "r">>
      [] name = "integer"      -> <<"i", "n", "t", "e", "g", "e", "r">>

Digit == <<"1", "2", "3", "4", "5", "6">>

ValueSchemes == {"digits", "empty", "spaced"}

\* the value of the i-th field of a token under a value scheme
ValueAt(scheme, i) ==
    CASE scheme = "digits" -> <<Digit[i]>>
      [] scheme = "empty"  -> <<>>
      [] scheme = "spaced" -> <<Digit[i], " ", "r">>

\* field_name: "value"
SerializeField(f) ==
    FieldKey(f.name) \o <<":", " ", "\"">> \o f.value \o <<"\"">>

RECURSIVE JoinFields(_)
JoinFields(fs) ==
    IF fs = <<>> THEN <<>>
    ELSE IF Len(fs) = 1 THEN SerializeField(fs[1])
    ELSE SerializeField(fs[1]) \o <<" ">> \o JoinFields(Tail(fs))

\* fraction { field field ... }
SerializeFraction(fs) ==
    <<"f", "r", "a", "c", "t", "i", "o", "n", " ", "{", " ">> \o JoinFields(fs) \o <<" ", "}">>

NameSeqs == UNION { [1..n -> FieldNames] : n \in 0..MaxFields }

(***************************************************************************)
(* jp/taggers/tokenize_and_classify.py: the composed classifier.           *)
(* The output of the classifier is a sequence of units: the strings the    *)
(* code inserts, and the tagged bodies the category grammars emit.         *)
(***************************************************************************)
Lit(str) == [lit |-> str, cat |-> "", span |-> <<>>]

\* what the grammar of category cat emits for the span it read
Body(cat, span) == [lit |-> "", cat |-> cat, span |-> span]

Categories == {"whitelist", "cardinal", "ordinal", "date", "decimal", "fraction", "time", "word"}

AllOf(span, ch) == \A i \in 1..Len(span) : span[i] = ch

\* the surface language of each category grammar, over the characters
\* " " (white space), "." (punctuation), "1" (a numeral), "a" (a letter)
Accepts(cat, span) ==
    CASE cat = "cardinal"    -> span # <<>> /\ AllOf(span, "1")
      [] cat = "whitelist"   -> span = <<"a">>
      [] cat = "word"        -> span # <<>> /\ \A i \in 1..Len(span) : ~NEMO_WHITE_SPACE(span[i])
      [] cat = "punctuation" -> span = <<".">>
      [] OTHER               -> /\ Len(span) >= 2
                                /\ span[Len(span)] = "a"
                                /\ AllOf(SubSeq(span, 1, Len(span) - 1), "1")

\* CardinalFst().fst, ..., PunctuationFst().fst
category_graph(cat, s, C) ==
    UNION { { [c EXCEPT !.pos = @ + k, !.out = Append(@, Body(cat, SubSeq(s, c.pos + 1, c.pos + k)))] :
                k \in { j \in 1..(Len(s) - c.pos) : Accepts(cat, SubSeq(s, c.pos + 1, c.pos + j)) } } :
            c \in C }

\* the weights of cardinal_graph and word_graph exchanged
classify_weight_exchanged(cat) ==
    CASE cat = "whitelist" -> 101
      [] cat = "cardinal"  -> 10000
      [] cat = "word"      -> -110
      [] OTHER             -> 110

\* the second argument of each pynutil.add_weight of classify, in hundredths
classify_weight(cat) ==
    CASE cat = "whitelist" -> 101
      [] cat = "cardinal"  -> -110
      [] cat = "ordinal"   -> 110
      [] cat = "date"      -> 110
      [] cat = "decimal"   -> 110
      [] cat = "fraction"  -> 110
      [] cat = "time"      -> 110
      [] cat = "word"      -> 10000

punct_weight == 110

classify(s, C) ==
    UNION { add_weight(classify_weight(cat), category_graph(cat, s, C)) : cat \in Categories }

punct(s, C) ==
    insert(<<Lit(" }")>>,
      add_weight(punct_weight, category_graph("punctuation", s,
        insert(<<Lit("tokens { ")>>, C))))

token(s, C) ==
    insert(<<Lit(" }")>>, classify(s, insert(<<Lit("tokens { ")>>, C)))

\* pynini.closure(punct + pynutil.insert(" "))
RECURSIVE closure_punct_before(_, _)
closure_punct_before(s, C) ==
    IF C = {} THEN {}
    ELSE C \cup closure_punct_before(s, insert(<<Lit(" ")>>, punct(s, C)))

\* pynini.closure(pynutil.insert(" ") + punct)
RECURSIVE closure_punct_after(_, _)
closure_punct_after(s, C) ==
    IF C = {} THEN {}
    ELSE C \cup closure_punct_after(s, punct(s, insert(<<Lit(" ")>>, C)))

token_plus_punct(s, C) ==
    closure_punct_after(s, token(s, closure_punct_before(s, C)))

\* delete_extra_space = pynini.cross(pynini.closure(NEMO_WHITE_SPACE, 1), " ")
delete_extra_space(s, C) ==
    UNION { { [c EXCEPT !.pos = @ + k, !.out = Append(@, Lit(" "))] :
                k \in { j \in 1..(Len(s) - c.pos) :
                          \A i \in 1..j : NEMO_WHITE_SPACE(s[c.pos + i]) } } : c \in C }

\* pynini.closure(delete_extra_space + token_plus_punct)
RECURSIVE closure_token_plus_punct(_, _)
closure_token_plus_punct(s, C) ==
    IF C = {} THEN {}
    ELSE C \cup closure_token_plus_punct(s, token_plus_punct(s, delete_extra_space(s, C)))

\* delete_extra_space in the place of the leading delete_space
ClassifyFst_graph_leading_space(s, C) ==
    delete_space(s,
      closure_token_plus_punct(s,
        token_plus_punct(s,
          C \cup delete_extra_space(s, C))))

ClassifyFst_graph(s, C) ==
    delete_space(s,
      closure_token_plus_punct(s,
        token_plus_punct(s,
          delete_space(s, C))))

\* the accepting paths of ClassifyFst.fst on the line s: output and weight
ClassifyFst(s) ==
    { [out |-> c.out, w |-> c.w] : c \in { d \in ClassifyFst_graph(s, Start) : d.pos = Len(s) } }

\* shortest-path selection: the paths of minimum total weight
ShortestPaths(P) == { p \in P : \A q \in P : p.w <= q.w }

LineChars == {" ", ".", "1", "a"}

Lines == UNION { [1..n -> LineChars] : n \in 0..MaxLine }

(***************************************************************************)
(* de/verbalizers/electronic.py                                            *)
(***************************************************************************)
\* pynini.invert(pynini.string_file("data/numbers/digit.tsv")) | pynini.cross("1", "eins")
graph_digit_no_zero ==
    { [in |-> <<"2">>, out |-> <<"z", "w", "e", "i">>],
      [in |-> <<"1">>, out |-> <<"e", "i", "n", "s">>] }

\* pynini.invert(pynini.string_file("data/numbers/zero.tsv"))
graph_zero == { [in |-> <<"0">>, out |-> <<"n", "u", "l", "l">>] }

graph_digit == graph_digit_no_zero \cup graph_zero

\* pynini.string_file("data/electronic/symbols.tsv")
graph_symbols ==
    { [in |-> <<".">>, out |-> <<"p", "u", "n", "k", "t">>],
      [in |-> <<"-">>, out |-> <<"b", "i", "n", "d", "e", "s", "t", "r", "i", "c", "h">>] }

\* pynini.string_file("data/electronic/server_name.tsv")
server_common ==
    { [in |-> <<"h", "o", "t", "m", "a", "i", "l">>, out |-> <<"h", "o", "t", "m", "a", "i", "l">>] }

\* pynini.string_file("data/electronic/domain.tsv")
domain_common ==
    { [in |-> <<"c", "o", "m">>, out |-> <<"c", "o", "m">>] }

\* a string-map transducer: reads the input side of an entry, writes its output side
string_map(s, table, C) ==
    UNION { { [c EXCEPT !.pos = @ + Len(e.in), !.out = @ \o e.out] :
                c \in { d \in C : HasAt(s, d.pos, e.in) } } : e \in table }

\* pynini.cdrewrite(table, "", "", NEMO_SIGMA) applied to the string o, for a
\* table of single characters: every character of the table is replaced
RECURSIVE cdrewrite(_, _)
cdrewrite(table, o) ==
    IF o = <<>> THEN <<>>
    ELSE (IF \E e \in table : e.in = <<Head(o)>>
          THEN (CHOOSE e \in table : e.in = <<Head(o)>>).out
          ELSE <<Head(o)>>)
         \o cdrewrite(table, Tail(o))

\* the characters joined by single spaces
RECURSIVE Spaced(_)
Spaced(str) ==
    IF Len(str) <= 1 THEN str
    ELSE <<Head(str), " ">> \o Spaced(Tail(str))

\* closure(NEMO_NOT_QUOTE - accep(" ") + insert_space) + (NEMO_NOT_QUOTE - accep(" "))
add_space_after_char(s, C) ==
    UNION { { [c EXCEPT !.pos = @ + k, !.out = @ \o Spaced(SubSeq(s, c.pos + 1, c.pos + k))] :
                k \in { j \in 1..(Len(s) - c.pos) :
                          \A i \in 1..j : /\ NEMO_NOT_QUOTE(s[c.pos + i])
                                          /\ s[c.pos + i] # " " } } : c \in C }

verbalize_characters(o) == cdrewrite(graph_symbols \cup graph_digit, o)

\* a configuration with nothing written yet, to run a composed transducer from
Fresh(c) == {[c EXCEPT !.out = <<>>]}

user_name_fields(s, C) ==
    delete(s, <<"\"">>,
      add_space_after_char(s,
        delete(s, <<"u", "s", "e", "r", "n", "a", "m", "e", ":", " ", "\"">>, C)))

\* user_name @= verbalize_characters: what user_name writes is rewritten
user_name(s, C) ==
    UNION { { [r EXCEPT !.out = c.out \o verbalize_characters(r.out)] :
                r \in user_name_fields(s, Fresh(c)) } : c \in C }

\* one NEMO_NOT_QUOTE character, copied
not_quote_char(s, C) ==
    { [c EXCEPT !.pos = @ + 1, !.out = Append(@, s[c.pos + 1])] :
          c \in { d \in C : d.pos < Len(s) /\ NEMO_NOT_QUOTE(s[d.pos + 1]) } }

\* every segment of the domain spelled, the lookup tables not consulted
convert_defaults_spell(s, C) ==
    add_weight(1, not_quote_char(s, C))

\* the weight 0.0001 is 1 here
convert_defaults(s, C) ==
    add_weight(1, not_quote_char(s, C))
      \cup string_map(s, server_common, C)
      \cup string_map(s, domain_common, C)

\* pynini.closure(insert_space + convert_defaults)
RECURSIVE closure_convert_defaults(_, _)
closure_convert_defaults(s, C) ==
    IF C = {} THEN {}
    ELSE C \cup closure_convert_defaults(s, convert_defaults(s, insert(<<" ">>, C)))

domain_segments(s, C) == closure_convert_defaults(s, convert_defaults(s, C))

\* domain @= verbalize_characters: what domain writes is rewritten
domain_verbalized(s, C) ==
    UNION { { [r EXCEPT !.out = c.out \o verbalize_characters(r.out)] :
                r \in domain_segments(s, Fresh(c)) } : c \in C }

domain(s, C) ==
    delete(s, <<"\"">>,
      domain_verbalized(s,
        delete(s, <<"d", "o", "m", "a", "i", "n", ":", " ", "\"">>, C)))

protocol_symbols(o) == cdrewrite(graph_symbols, o)

\* add_space_after_char() @ pynini.cdrewrite(graph_symbols, "", "", NEMO_SIGMA)
protocol_characters(s, C) ==
    UNION { { [r EXCEPT !.out = c.out \o protocol_symbols(r.out)] :
                r \in add_space_after_char(s, Fresh(c)) } : c \in C }

protocol(s, C) ==
    delete(s, <<"\"">>,
      protocol_characters(s,
        delete(s, <<"p", "r", "o", "t", "o", "c", "o", "l", ":", " ", "\"">>, C)))

NEMO_SPACE(s, C) == accep(s, <<" ">>, C)

ElectronicFst_graph(s, C) ==
    domain(s, C \cup NEMO_SPACE(s, protocol(s, C)))
      \cup domain(s, insert(<<"a", "t", " ">>, NEMO_SPACE(s, user_name(s, C))))
      \cup user_name(s, insert(<<"a", "t", " ">>, C))

\* delete_preserve_order: any number of  preserve_order: true  deleted
RECURSIVE delete_preserve_order(_, _)
delete_preserve_order(s, C) ==
    IF C = {} THEN {}
    ELSE C \cup delete_preserve_order(s,
                  delete(s, <<" ", "p", "r", "e", "s", "e", "r", "v", "e", "_", "o", "r", "d", "e", "r",
                              ":", " ", "t", "r", "u", "e">>, C))

graph_preserve_order(s, C) == delete_preserve_order(s, ElectronicFst_graph(s, C))

\* self.delete_tokens(self.graph + delete_preserve_order)
ElectronicFst_delete_tokens(s) ==
    { [out |-> c.out, w |-> c.w] :
        c \in { d \in delete_tokens_close(s,
                          graph_preserve_order(s,
                            delete_tokens_open(s, <<"e", "l", "e", "c", "t", "r", "o", "n", "i", "c">>,
                                               Start))) : d.pos = Len(s) } }

\* every " punkt" replaced by ".", wherever it stands
RECURSIVE rewrite_every_punkt(_, _)
rewrite_every_punkt(o, i) ==
    IF i >= Len(o) THEN <<>>
    ELSE IF HasAt(o, i, <<" ", "p", "u", "n", "k", "t">>)
         THEN <<".">> \o rewrite_every_punkt(o, i + 6)
         ELSE <<o[i + 1]>> \o rewrite_every_punkt(o, i + 1)

\* pynini.cdrewrite(pynini.cross(" punkt", "."), "", "[EOS]", NEMO_SIGMA) applied
\* to the characters of o after the first i
RECURSIVE rewrite_final_punkt(_, _)
rewrite_final_punkt(o, i) ==
    IF i >= Len(o) THEN <<>>
    ELSE IF HasAt(o, i, <<" ", "p", "u", "n", "k", "t">>) /\ i + 6 = Len(o)
         THEN <<".">> \o rewrite_final_punkt(o, i + 6)
         ELSE <<o[i + 1]>> \o rewrite_final_punkt(o, i + 1)

preserve_final_period_everywhere(o) == rewrite_every_punkt(o, 0)

preserve_final_period(o) == rewrite_final_punkt(o, 0)

\* delete_tokens @ preserve_final_period, given the paths R of delete_tokens
compose_preserve_final_period(R) ==
    { [out |-> preserve_final_period(r.out), w |-> r.w] : r \in R }

\* the paths of ElectronicFst(deterministic).fst on the string s
ElectronicFst(s, deterministic) ==
    compose_preserve_final_period(ElectronicFst_delete_tokens(s))

(***************************************************************************)
(* The tagged electronic tokens handed to the verbalizer.                  *)
(***************************************************************************)
UserChars == {"1", "."}

Usernames ==
    UNION { [1..n -> UserChars] : n \in 1..MaxUser } \cup { <<"a", "b", "c">> }

DomainParts == { <<"h", "o", "t", "m", "a", "i", "l">>, <<"c", "o", "m">>, <<".">>, <<"a">> }

RECURSIVE Flatten(_)
Flatten(parts) ==
    IF parts = <<>> THEN <<>> ELSE Head(parts) \o Flatten(Tail(parts))

Domains == { Flatten(ps) : ps \in UNION { [1..n -> DomainParts] : n \in 1..MaxParts } }

Protocols == { <<"w", "w", "w", ".">> }

QuotedField(key, value) == key \o <<":", " ", "\"">> \o value \o <<"\"">>

\* electronic { [protocol: "P"] [username: "U"] [domain: "D"] [preserve_order: true] }
SerializeElectronic(t) ==
    <<"e", "l", "e", "c", "t", "r", "o", "n", "i", "c", " ", "{", " ">>
      \o (IF t.shape = "protocol_domain"
          THEN QuotedField(<<"p", "r", "o", "t", "o", "c", "o", "l">>, t.protocol) \o <<" ">>
          ELSE <<>>)
      \o (IF t.shape \in {"username_domain", "username"}
          THEN QuotedField(<<"u", "s", "e", "r", "n", "a", "m", "e">>, t.username)
          ELSE <<>>)
      \o (IF t.shape = "username_domain" THEN <<" ">> ELSE <<>>)
      \o (IF t.shape # "username"
          THEN QuotedField(<<"d", "o", "m", "a", "i", "n">>, t.domain)
          ELSE <<>>)
      \o (IF t.preserve_order
          THEN <<" ", "p", "r", "e", "s", "e", "r", "v", "e", "_", "o", "r", "d", "e", "r",
                 ":", " ", "t", "r", "u", "e">>
          ELSE <<>>)
      \o <<" ", "}">>

\* the tokens of one shape; a field the shape does not have is empty
TokensOfShape(sh, prs, us, ds) ==
    { [shape |-> sh, protocol |-> pr, username |-> u, domain |-> d,
       preserve_order |-> po, deterministic |-> det] :
        pr \in prs, u \in us, d \in ds, po \in BOOLEAN, det \in BOOLEAN }

ElectronicTokens ==
    TokensOfShape("domain", {<<>>}, {<<>>}, Domains)
      \cup TokensOfShape("protocol_domain", Protocols, {<<>>}, Domains)
      \cup TokensOfShape("username_domain", {<<>>}, Usernames, Domains)
      \cup TokensOfShape("username", {<<>>}, Usernames, {<<>>})

(***************************************************************************)
(* jp/taggers/tokenize_and_classify.py: construction and the grammar cache *)
(***************************************************************************)
None == "<None>"

InputCases == {"lower_cased", "cased"}
CacheDirs == {None, "None", "cache"}
Whitelists == {None, "wl_a.tsv", "wl_b.tsv"}

\* the grammar the else-branch of __init__ builds: of the arguments only
\* whitelist and input_case reach the build, through WhiteListFst
BuildGraph(input_case, whitelist) ==
    [whitelist_graph |-> [input_file |-> whitelist, input_case |-> input_case]]

\* os.path.join(cache_dir, f"en_itn_{input_case}.far")
FarPath(cache_dir, input_case) == <<cache_dir, "en_itn_", input_case, ".far">>

FarPaths == { FarPath(d, c) : d \in CacheDirs \ {None, "None"}, c \in InputCases }

FrIdle ==
    /\ fr_fields = <<>>
    /\ fr_token = <<>>
    /\ fr_out = {}
    /\ fr_pc = "idle"

ClIdle ==
    /\ line = <<>>
    /\ cl_paths = {}
    /\ cl_pc = "idle"

ElIdle ==
    /\ el_in = <<>>
    /\ el_token = <<>>
    /\ el_rendered = {}
    /\ el_out = {}
    /\ el_pc = "idle"

CacheIdle ==
    /\ far = [p \in FarPaths |-> {}]
    /\ self_fst = {}
    /\ ctor_args = <<>>

\* far_file after lines 61-64, as a set: empty when there is no far file
far_file(cache_dir, input_case) ==
    IF cache_dir # None /\ cache_dir # "None"
    THEN {FarPath(cache_dir, input_case)}
    ELSE {}

\* ClassifyFst.__init__
Construct(input_case, cache_dir, overwrite_cache, whitelist) ==
    /\ ctor_args' = <<[input_case |-> input_case, cache_dir |-> cache_dir,
                       overwrite_cache |-> overwrite_cache, whitelist |-> whitelist]>>
    /\ IF /\ ~overwrite_cache
          /\ \E f \in far_file(cache_dir, input_case) : far[f] # {}
       THEN /\ self_fst' = far[FarPath(cache_dir, input_case)]
            /\ UNCHANGED far
       ELSE /\ self_fst' = {BuildGraph(input_case, whitelist)}
            /\ far' = [p \in FarPaths |->
                          IF p \in far_file(cache_dir, input_case)
                          THEN {BuildGraph(input_case, whitelist)}
                          ELSE far[p]]
    /\ UNCHANGED <<fr_vars, cl_vars, el_vars>>

InitCache == FrIdle /\ CacheIdle /\ ClIdle /\ ElIdle

NextCache ==
    \E input_case \in InputCases, cache_dir \in CacheDirs,
       overwrite_cache \in BOOLEAN, whitelist \in Whitelists :
        Construct(input_case, cache_dir, overwrite_cache, whitelist)

SpecCache == InitCache /\ [][NextCache]_vars

\* C3: whatever constructions came before, the grammar a construction ends up
\* with is the grammar a from-scratch build with its own arguments produces.
C3_CacheTransparent ==
    ctor_args # <<>> =>
        self_fst = {BuildGraph(ctor_args[1].input_case, ctor_args[1].whitelist)}

(***************************************************************************)
(* Fraction verbalization as a state machine: a token is tagged, then      *)
(* FractionFst is applied to it.                                           *)
(***************************************************************************)
InitFraction == FrIdle /\ CacheIdle /\ ClIdle /\ ElIdle

FrTag ==
    /\ fr_pc = "idle"
    /\ \E names \in NameSeqs, scheme \in ValueSchemes :
          /\ fr_fields' = [i \in 1..Len(names) |->
                              [name |-> names[i], value |-> ValueAt(scheme, i)]]
          /\ fr_token' = SerializeFraction(fr_fields')
    /\ fr_pc' = "tagged"
    /\ UNCHANGED <<fr_out, cache_vars, cl_vars, el_vars>>

FrVerbalize ==
    /\ fr_pc = "tagged"
    /\ fr_out' = FractionFst(fr_token)
    /\ fr_pc' = "done"
    /\ UNCHANGED <<fr_fields, fr_token, cache_vars, cl_vars, el_vars>>

NextFraction == FrTag \/ FrVerbalize

SpecFraction == InitFraction /\ [][NextFraction]_vars

(***************************************************************************)
(* Classification as a state machine: a line is read, then ClassifyFst is  *)
(* applied to it.                                                          *)
(***************************************************************************)
InitClassify == FrIdle /\ CacheIdle /\ ClIdle /\ ElIdle

ClRead ==
    /\ cl_pc = "idle"
    /\ line' \in Lines
    /\ cl_pc' = "read"
    /\ UNCHANGED <<cl_paths, fr_vars, cache_vars, el_vars>>

ClClassify ==
    /\ cl_pc = "read"
    /\ cl_paths' = ClassifyFst(line)
    /\ cl_pc' = "done"
    /\ UNCHANGED <<line, fr_vars, cache_vars, el_vars>>

NextClassify == ClRead \/ ClClassify

SpecClassify == InitClassify /\ [][NextClassify]_vars

(***************************************************************************)
(* Properties of the classifier.                                           *)
(***************************************************************************)
\* the weight the classifier attaches to the category of a tagged body
AttachedWeight(cat) ==
    IF cat = "punctuation" THEN punct_weight ELSE classify_weight(cat)

\* the path consists of one token, of category cat
SingleToken(p, cat) ==
    /\ Len(p.out) = 3
    /\ p.out[2].cat = cat

\* C4: every weight attached to a category of the weighted union, and to the
\* punctuation category, is a non-negative cost.
C4_WeightsNonNegative ==
    \A p \in cl_paths : \A i \in 1..Len(p.out) :
        p.out[i].cat # "" => AttachedWeight(p.out[i].cat) >= 0

\* C5: the word category carries a weight strictly greater than every other
\* category's, and a line that can be tagged both as one cardinal token and as
\* one word token has exactly one path of minimum weight, the cardinal one.
C5_CardinalBeatsWord ==
    /\ \A cat \in (Categories \cup {"punctuation"}) \ {"word"} :
          AttachedWeight("word") > AttachedWeight(cat)
    /\ \A p, q \in cl_paths :
          (SingleToken(p, "cardinal") /\ SingleToken(q, "word"))
              => ShortestPaths(cl_paths) = {p}

C5_Witness ==
    /\ cl_pc = "done"
    /\ line = <<" ", "1", "1", " ">>
    /\ \E p, q \in cl_paths : SingleToken(p, "cardinal") /\ SingleToken(q, "word")
    /\ \A p \in ShortestPaths(cl_paths) : SingleToken(p, "cardinal")

\* tokens { body } separated by single spaces, nothing before or after
IsTokenSequence(out) ==
    /\ Len(out) % 4 = 3
    /\ \A i \in 1..Len(out) :
          CASE i % 4 = 1 -> out[i] = Lit("tokens { ")
            [] i % 4 = 2 -> out[i].cat # ""
            [] i % 4 = 3 -> out[i] = Lit(" }")
            [] OTHER     -> out[i] = Lit(" ")

TokensOf(out) == [j \in 1..((Len(out) + 1) \div 4) |-> out[4 * j - 2]]

RECURSIVE SpanConcat(_)
SpanConcat(toks) ==
    IF toks = <<>> THEN <<>> ELSE Head(toks).span \o SpanConcat(Tail(toks))

\* the maximal runs of characters other than white space, left to right
RECURSIVE RunsOf(_, _)
RunsOf(s, run) ==
    IF s = <<>> THEN (IF run = <<>> THEN <<>> ELSE <<run>>)
    ELSE IF NEMO_WHITE_SPACE(Head(s))
         THEN (IF run = <<>> THEN <<>> ELSE <<run>>) \o RunsOf(Tail(s), <<>>)
         ELSE RunsOf(Tail(s), Append(run, Head(s)))

ContentCount(toks) ==
    Cardinality({ i \in 1..Len(toks) : toks[i].cat # "punctuation" })

\* the tokens split into one group for each run, each group covering its run
\* and holding exactly one content token
RECURSIVE UnitsCover(_, _)
UnitsCover(toks, runs) ==
    IF runs = <<>> THEN toks = <<>>
    ELSE \E k \in 1..Len(toks) :
            /\ SpanConcat(SubSeq(toks, 1, k)) = Head(runs)
            /\ ContentCount(SubSeq(toks, 1, k)) = 1
            /\ UnitsCover(SubSeq(toks, k + 1, Len(toks)), Tail(runs))

\* C6: the output for an accepted line is one or more  tokens { ... }  units
\* in the order of the spans they cover, adjacent units separated by exactly
\* one space, no space before the first or after the last, and each
\* token-or-punctuation unit holds exactly one content token.
C6_SerializedForm ==
    \A p \in cl_paths :
        /\ IsTokenSequence(p.out)
        /\ UnitsCover(TokensOf(p.out), RunsOf(line, <<>>))

C6_Witness ==
    /\ cl_pc = "done"
    /\ line = <<" ", "1", ".", " ", " ", "a">>
    /\ \E p \in ShortestPaths(cl_paths) :
          p.out = << Lit("tokens { "), Body("cardinal", <<"1">>), Lit(" }"), Lit(" "),
                     Lit("tokens { "), Body("punctuation", <<".">>), Lit(" }"), Lit(" "),
                     Lit("tokens { "), Body("whitelist", <<"a">>), Lit(" }") >>

(***************************************************************************)
(* Electronic verbalization as a state machine: a token is tagged, then    *)
(* ElectronicFst is applied to it.                                         *)
(***************************************************************************)
InitElectronic == FrIdle /\ CacheIdle /\ ClIdle /\ ElIdle

ElTag ==
    /\ el_pc = "idle"
    /\ \E t \in ElectronicTokens :
          /\ el_in' = <<t>>
          /\ el_token' = SerializeElectronic(t)
    /\ el_pc' = "tagged"
    /\ UNCHANGED <<el_rendered, el_out, fr_vars, cache_vars, cl_vars>>

ElVerbalize ==
    /\ el_pc = "tagged"
    /\ el_rendered' = ElectronicFst_delete_tokens(el_token)
    /\ el_out' = compose_preserve_final_period(el_rendered')
    /\ el_pc' = "done"
    /\ UNCHANGED <<el_in, el_token, fr_vars, cache_vars, cl_vars>>

NextElectronic == ElTag \/ ElVerbalize

SpecElectronic == InitElectronic /\ [][NextElectronic]_vars

(***************************************************************************)
(* Properties of the electronic verbalizer.                                *)
(***************************************************************************)
EndsWith(o, suffix) ==
    /\ Len(suffix) <= Len(o)
    /\ SubSeq(o, Len(o) - Len(suffix) + 1, Len(o)) = suffix

\* the spoken form of one character: digits and symbols by their words
SpokenChar(ch) ==
    CASE ch = "0" -> <<"n", "u", "l", "l">>
      [] ch = "1" -> <<"e", "i", "n", "s">>
      [] ch = "2" -> <<"z", "w", "e", "i">>
      [] ch = "." -> <<"p", "u", "n", "k", "t">>
      [] ch = "-" -> <<"b", "i", "n", "d", "e", "s", "t", "r", "i", "c", "h">>
      [] OTHER    -> <<ch>>

\* the characters of the username, each as one unit, joined by single spaces
RECURSIVE SpokenUsername(_)
SpokenUsername(u) ==
    IF Len(u) = 1 THEN SpokenChar(u[1])
    ELSE SpokenChar(Head(u)) \o <<" ">> \o SpokenUsername(Tail(u))

LookupWords == { <<"h", "o", "t", "m", "a", "i", "l">>, <<"c", "o", "m">> }

\* the units of the domain from position i on: a segment found in the lookup
\* tables is one unit, any other character is a unit of its own
RECURSIVE DomainUnits(_, _)
DomainUnits(d, i) ==
    IF i >= Len(d) THEN <<>>
    ELSE IF \E wd \in LookupWords : HasAt(d, i, wd)
         THEN LET wd == CHOOSE x \in LookupWords : HasAt(d, i, x)
              IN <<wd>> \o DomainUnits(d, i + Len(wd))
         ELSE <<SpokenChar(d[i + 1])>> \o DomainUnits(d, i + 1)

RECURSIVE JoinUnits(_)
JoinUnits(us) ==
    IF Len(us) = 1 THEN us[1]
    ELSE Head(us) \o <<" ">> \o JoinUnits(Tail(us))

SpokenDomain(d) == JoinUnits(DomainUnits(d, 0))

\* username, " at ", domain
SpokenAddress(t) == SpokenUsername(t.username) \o <<" ", "a", "t", " ">> \o SpokenDomain(t.domain)

\* a final " punkt" put back as "."
FinalPeriodRestored(o) ==
    IF EndsWith(o, <<" ", "p", "u", "n", "k", "t">>)
    THEN SubSeq(o, 1, Len(o) - 6) \o <<".">>
    ELSE o

\* the output strings of minimum weight
ElShortest == { p.out : p \in ShortestPaths(el_out) }

ElUsernameDomain == el_pc = "done" /\ el_in[1].shape = "username_domain"

\* C7 as stated: the minimum-weight output of a username-plus-domain token is
\* the spelled username, " at ", and the domain with lookup-table segments as
\* words, other characters spelled, and each period rendered as punkt.
C7_AddressRendering ==
    ElUsernameDomain => ElShortest = {SpokenAddress(el_in[1])}

\* C7 (amended): the minimum-weight output of a username-plus-domain token is
\* the spelled username, " at ", and the domain with lookup-table segments as
\* words, other characters spelled, and each period rendered as punkt, except
\* that a " punkt" ending the output is "."; username abc with domain
\* hotmail.com gives "a b c at hotmail punkt com".
C7_AddressRenderingFinalPeriod ==
    ElUsernameDomain =>
        /\ ElShortest = {FinalPeriodRestored(SpokenAddress(el_in[1]))}
        /\ (/\ el_in[1].username = <<"a", "b", "c">>
            /\ el_in[1].domain = <<"h", "o", "t", "m", "a", "i", "l", ".", "c", "o", "m">>)
              => ElShortest = {<<"a", " ", "b", " ", "c", " ", "a", "t", " ",
                                 "h", "o", "t", "m", "a", "i", "l", " ",
                                 "p", "u", "n", "k", "t", " ", "c", "o", "m">>}

C7_Witness ==
    /\ ElUsernameDomain
    /\ el_in[1].username = <<"a", "b", "c">>
    /\ el_in[1].domain = <<"h", "o", "t", "m", "a", "i", "l", ".", "c", "o", "m">>
    /\ ElShortest = {<<"a", " ", "b", " ", "c", " ", "a", "t", " ",
                       "h", "o", "t", "m", "a", "i", "l", " ",
                       "p", "u", "n", "k", "t", " ", "c", "o", "m">>}

\* C8: built with deterministic=True, ElectronicFst has exactly one
\* transduction for every token it accepts.
C8_DeterministicSingleOutput ==
    (el_pc = "done" /\ el_in[1].deterministic /\ el_out # {})
        => Cardinality({ p.out : p \in el_out }) = 1

\* C9: a rendering that ends with " punkt" is output with that last " punkt"
\* replaced by "." and otherwise unchanged, any other rendering is output
\* unchanged, and no output ends with " punkt".
C9_FinalPeriod ==
    el_pc = "done" =>
        /\ el_out = { [out |-> FinalPeriodRestored(r.out), w |-> r.w] : r \in el_rendered }
        /\ \A p \in el_out : ~EndsWith(p.out, <<" ", "p", "u", "n", "k", "t">>)

C9_Witness ==
    /\ ElUsernameDomain
    /\ el_in[1].username = <<"1">>
    /\ el_in[1].domain = <<".", "a", ".">>
    /\ \E r \in el_rendered :
          r.out = <<"e", "i", "n", "s", " ", "a", "t", " ", "p", "u", "n", "k", "t", " ", "a", " ",
                    "p", "u", "n", "k", "t">>
    /\ ElShortest = {<<"e", "i", "n", "s", " ", "a", "t", " ", "p", "u", "n", "k", "t", " ", "a", ".">>}

(***************************************************************************)
(* Properties of the fraction verbalizer.                                  *)
(***************************************************************************)
FrNames == [i \in 1..Len(fr_fields) |-> fr_fields[i].name]

FrCount(name) == Cardinality({ i \in 1..Len(fr_fields) : fr_fields[i].name = name })

\* the value of the (first) field called name
FrValue(name) ==
    fr_fields[CHOOSE i \in 1..Len(fr_fields) :
                 /\ fr_fields[i].name = name
                 /\ \A j \in 1..(i - 1) : fr_fields[j].name # name].value

FrHas(name) == FrCount(name) > 0

\* [integer_part] [negative] numerator denominator
FrTaggerOrder ==
    FrNames \in { <<"numerator", "denominator">>,
                  <<"integer_part", "numerator", "denominator">>,
                  <<"negative", "numerator", "denominator">>,
                  <<"integer_part", "negative", "numerator", "denominator">> }

FrRendering ==
    (IF FrHas("integer_part") THEN FrValue("integer_part") \o <<" ">> ELSE <<>>)
      \o (IF FrHas("negative") THEN FrValue("negative") ELSE <<>>)
      \o FrValue("numerator") \o <<"/">> \o FrValue("denominator")

\* C1: a fraction token whose denominator field is serialized before its
\* numerator field, with or without a leading integer_part field, is accepted
\* and verbalizes to exactly N/D, respectively I N/D.
C1_DenominatorFirstVerbalizes ==
    (/\ fr_pc = "done"
     /\ FrNames \in { <<"denominator", "numerator">>,
                      <<"integer_part", "denominator", "numerator">> })
        => fr_out = {FrRendering}

\* C2: a fraction token whose fields are in the tagger's order
\* [integer_part] [negative] numerator denominator has exactly one output:
\* the integer part and one space when present, the sign when present, the
\* numerator, "/", the denominator, and nothing else.
C2_TaggerOrderRendering ==
    (fr_pc = "done" /\ FrTaggerOrder) => fr_out = {FrRendering}

C2_Witness ==
    /\ fr_pc = "done"
    /\ FrNames = <<"integer_part", "negative", "numerator", "denominator">>
    /\ fr_out = {<<"1", " ", "2", "3", "/", "4">>}

\* C10: FractionFst accepts a token only if it has exactly one numerator and
\* exactly one denominator field, at most one integer_part and at most one
\* negative field, and nothing after the denominator field.
C10_StrictParsing ==
    (fr_pc = "done" /\ fr_out # {}) =>
        /\ FrCount("numerator") = 1
        /\ FrCount("denominator") = 1
        /\ FrCount("integer_part") <= 1
        /\ FrCount("negative") <= 1
        /\ fr_fields[Len(fr_fields)].name = "denominator"
====
